---- MODULE Spec2Model ----
(***************************************************************************)
(* evtrack -- UI module (src/js/src/trackui.js).                           *)
(*                                                                         *)
(* The TrackUI singleton: settings, uid, time, info, the timers it arms    *)
(* with setTimeout / setInterval, the init request whose callback has not  *)
(* run yet, and the requests handed to TrackUI.send.  One action per       *)
(* callback the browser can run: record, the event handlers, the deferred  *)
(* timer, the recurring timers, the init response and the unload handler.  *)
(*                                                                         *)
(* Time is in milliseconds, as new Date().getTime() and the timer delays   *)
(* are.  settings.postInterval is kept multiplied by 1000 (postIntervalMs) *)
(* because the code only ever uses postInterval*1000.                      *)
(*                                                                         *)
(* A log row "id time x y event element" (fillInfo) is the tuple of its    *)
(* six fields; the info array, and the "&info=" + TrackUI.info field that  *)
(* joins it in array order, is the sequence of rows.                       *)
(***************************************************************************)
EXTENDS Integers, Sequences, FiniteSets, TLC

VARIABLES
  started,        \* TrackUI.record has run (listeners and timers exist)
  alive,          \* the page has not been unloaded
  samplingFreq,   \* TrackUI.settings.samplingFreq
  postIntervalMs, \* TrackUI.settings.postInterval * 1000
  uid,            \* TrackUI.uid
  time,           \* TrackUI.time
  info,           \* TrackUI.info
  now,            \* the browser clock, new Date().getTime()
  timers,         \* armed setTimeout / setInterval callbacks, in arming order
  pending,        \* asynchronous init requests whose callback has not run
  sent,           \* history: the requests passed to TrackUI.send, in order
  accepted,       \* history: the rows pushed by fillInfo, in order
  lastOp          \* history: the callback that ran last, with the clock
                  \* values and the response text it read

vars == <<started, alive, samplingFreq, postIntervalMs, uid, time,
          info, now, timers, pending, sent, accepted, lastOp>>

----------------------------------------------------------------------------
(* Bounds of the model.                                                    *)

MaxTime == 2          \* Spec: the clock stops advancing here
MaxAccepted == 2      \* Spec: rows recorded during one visit
MaxSends == 3         \* requests sent during one visit
MaxTouches == 2       \* contact points in one touch event
MaxRows == 2          \* SpecSampling: rows recorded
LastInstant == 150    \* SpecSampling: the clock stops advancing here

\* Spec: a page that posts every millisecond (config postInterval: 0.001)
\* and records every event or at most one per millisecond (samplingFreq: 0
\* or 1); the clock moves a millisecond at a time.  {} is a property that
\* is absent or null.
SamplingFreqs == {{0}, {1}}
PostIntervals == {{1}}
Steps == {1}

\* SpecSampling: the first instants of a visit to a page that keeps the
\* default postInterval, with the default, no, a negative or a 100 ms
\* sampling gate.
GateFreqs == {{}, {0}, {-1}, {100}}
GateIntervals == {{}}
GateSteps == {50}

----------------------------------------------------------------------------
(* Values.                                                                 *)

\* A JavaScript number that is either NaN or an integer.
NaN == [nan |-> TRUE, n |-> 0]
Num(k) == [nan |-> FALSE, n |-> k]

\* JavaScript truthiness of a number: neither 0 nor NaN.
Truthy(v) == ~v.nan /\ v.n # 0

Digits == {"0", "1", "2"}
DigitVal(c) == IF c = "1" THEN 1 ELSE IF c = "2" THEN 2 ELSE 0

\* Response texts the server (or a failed request) can produce.
Responses == {<<>>, <<"0">>, <<"x">>, <<"1">>, <<"2">>, <<"1", "x">>}

\* parseInt(response): the longest prefix of decimal digits, NaN when the
\* text does not start with a digit (empty text included).
RECURSIVE ParseDigits(_, _, _)
ParseDigits(s, i, acc) ==
  IF i > Len(s) \/ s[i] \notin Digits THEN acc
  ELSE ParseDigits(s, i + 1, acc * 10 + DigitVal(s[i]))

parseInt(s) ==
  IF Len(s) = 0 \/ s[1] \notin Digits THEN NaN
  ELSE Num(ParseDigits(s, 1, 0))

----------------------------------------------------------------------------
(* Events, as the handlers see them after TrackLib.Events.fix.  A property *)
(* the browser leaves undefined is 0 here: the code only tests it for      *)
(* truthiness.  scrollLeft / scrollTop are the sums of the body and the    *)
(* documentElement scroll offsets at the time of the event.                *)

MouseEvts == {"mousemove"}
TouchEvts == {"touchmove"}
KeyEvts == {"keydown"}
WinEvts == {"resize"}

Pointers ==
  { [pageX |-> 0, pageY |-> 0, clientX |-> -2, clientY |-> 1,
     scrollLeft |-> 1, scrollTop |-> 1] }

NoPointer == [pageX |-> 0, pageY |-> 0, clientX |-> 0, clientY |-> 0,
              scrollLeft |-> 0, scrollTop |-> 0]

Event(id, type, p, xpath) ==
  [id |-> id, type |-> type, pageX |-> p.pageX, pageY |-> p.pageY,
   clientX |-> p.clientX, clientY |-> p.clientY,
   scrollLeft |-> p.scrollLeft, scrollTop |-> p.scrollTop, xpath |-> xpath]

MouseEvents == {Event(0, t, p, "/html/body") : t \in MouseEvts, p \in Pointers}
KeyEvents == {Event(0, t, NoPointer, "/html/body/input") : t \in KeyEvts}
WinEvents == {Event(0, t, NoPointer, "/") : t \in WinEvts}

\* The changedTouches of one touch event: contact points with distinct
\* identifiers, in list order.
TouchIds == 0..(MaxTouches - 1)
Contact(i) == Event(i, "", [NoPointer EXCEPT !.pageX = 1, !.pageY = i + 1], "/html/body")
TouchLists ==
  {<<>>} \cup
  UNION {{[j \in 1..k |-> Contact(f[j])] : f \in {g \in [1..k -> TouchIds] :
             \A a, b \in 1..k : a < b => g[a] < g[b]}} : k \in 1..MaxTouches}

\* getMousePos: page coordinates if present, else client coordinates plus
\* scroll offsets; a falsy or negative coordinate becomes 0.
Clamp(c) == IF c = 0 \/ c < 0 THEN 0 ELSE c

getMousePos(e) ==
  LET cx == IF e.pageX # 0 \/ e.pageY # 0 THEN e.pageX
            ELSE IF e.clientX # 0 \/ e.clientY # 0 THEN e.clientX + e.scrollLeft
            ELSE 0
      cy == IF e.pageX # 0 \/ e.pageY # 0 THEN e.pageY
            ELSE IF e.clientX # 0 \/ e.clientY # 0 THEN e.clientY + e.scrollTop
            ELSE 0
  IN [x |-> Clamp(cx), y |-> Clamp(cy)]

\* findElement: the XPath of the event target.
findElement(e) == e.xpath

\* fillInfo with unshift instead of push: the row goes to the front.
fillInfoUnshift(buf, id, t, pos, event, element) ==
  <<<<id, t, pos.x, pos.y, event, element>>>> \o buf

\* fillInfo: the row pushed onto TrackUI.info.
fillInfo(buf, id, t, pos, event, element) ==
  Append(buf, <<id, t, pos.x, pos.y, event, element>>)

\* The sampling test with > instead of >=.
RegisterStrict(freq, timeNow, last) ==
  IF freq > 0 THEN timeNow - last > freq ELSE TRUE

\* The sampling test of eventHandler (lines 177-181).
Register(freq, timeNow, last) ==
  IF freq > 0 THEN timeNow - last >= freq ELSE TRUE

\* eventHandler without line 185: the row is pushed, TrackUI.time stays.
eventHandlerKeepTime(st, e, timeNow) ==
  IF Register(samplingFreq, timeNow, st.time)
  THEN [time |-> st.time,
        info |-> fillInfo(st.info, e.id, timeNow, getMousePos(e), e.type,
                          findElement(e))]
  ELSE st

\* eventHandler on the pair (TrackUI.time, TrackUI.info), with the clock
\* reading timeNow.
eventHandler(st, e, timeNow) ==
  IF Register(samplingFreq, timeNow, st.time)
  THEN [time |-> timeNow,
        info |-> fillInfo(st.info, e.id, timeNow, getMousePos(e), e.type,
                          findElement(e))]
  ELSE st

\* The loop of touchHandler: eventHandler on each contact point in list
\* order, each stamped with the type of the touch event; reads[i] is the
\* clock reading of the i-th call.
RECURSIVE TouchLoop(_, _, _, _, _)
TouchLoop(st, touches, type, reads, i) ==
  IF i > Len(touches) THEN st
  ELSE TouchLoop(eventHandler(st, [touches[i] EXCEPT !.type = type], reads[i]),
                 touches, type, reads, i + 1)

\* Clock readings of k consecutive calls starting at t: the clock may move
\* on by a millisecond between two calls.
Readings(t, k) ==
  {r \in [1..k -> t..(t + k)] :
     /\ k > 0 => r[1] = t
     /\ \A j \in 2..k : r[j] - r[j - 1] \in {0, 1}}

\* The value of lastOp: the callback, the clock values it read and, for the
\* callback of a request, the response text.
Op(name, reads) == [op |-> name, reads |-> reads, text |-> <<>>]

----------------------------------------------------------------------------
(* State after the object literal is evaluated (lines 10-41): the script   *)
(* is loaded at clock value 0, which TrackUI.time keeps.                   *)

DefaultSamplingFreq == 10   \* settings.samplingFreq
DefaultPostInterval == 30   \* settings.postInterval, in seconds

Init ==
  /\ started = FALSE
  /\ alive = TRUE
  /\ samplingFreq = DefaultSamplingFreq
  /\ postIntervalMs = DefaultPostInterval * 1000
  /\ uid = Num(0)
  /\ time = 0
  /\ now = 0
  /\ info = <<>>
  /\ timers = <<>>
  /\ pending = 0
  /\ sent = <<>>
  /\ accepted = <<>>
  /\ lastOp = Op("load", <<>>)

\* A setting is overridden when config has the property and it is not null.
Override(default, opt) == IF opt = {} THEN default ELSE CHOOSE v \in opt : TRUE

\* record(config): merge the settings, register the listeners, arm the
\* deferred first send and register flush for beforeunload or unload.  A
\* page calls it once.
RecordWith(freqs, intervals) ==
  /\ alive /\ ~started
  /\ \E f \in freqs, p \in intervals :
       /\ samplingFreq' = Override(samplingFreq, f)
       /\ postIntervalMs' = Override(postIntervalMs, p)
       /\ timers' = Append(timers, [kind |-> "timeout",
                                    due |-> now + Override(postIntervalMs, p)])
  /\ started' = TRUE
  /\ lastOp' = Op("record", <<>>)
  /\ UNCHANGED <<alive, uid, time, info, now, pending, sent, accepted>>

record == RecordWith(SamplingFreqs, PostIntervals)

\* The clock moves on between two callbacks.
AdvanceBy(steps, horizon) ==
  /\ alive
  /\ \E d \in steps : now + d <= horizon /\ now' = now + d
  /\ lastOp' = Op("advance", <<>>)
  /\ UNCHANGED <<started, alive, samplingFreq, postIntervalMs, uid,
                 time, info, timers, pending, sent, accepted>>

Advance == AdvanceBy(Steps, MaxTime)

\* A listener that posts what it has recorded straight away.
HandleSending(events, rows) ==
  /\ alive /\ started
  /\ Len(accepted) < rows
  /\ \E e \in events :
       LET st == eventHandler([time |-> time, info |-> info], e, now)
       IN /\ time' = st.time
          /\ info' = <<>>
          /\ sent' = Append(sent, [action |-> "append", async |-> TRUE,
                                    uid |-> uid, info |-> st.info])
          /\ accepted' = accepted \o SubSeq(st.info, Len(info) + 1, Len(st.info))
  /\ lastOp' = Op("event", <<now>>)
  /\ UNCHANGED <<started, alive, samplingFreq, postIntervalMs, uid,
                 now, timers, pending>>

\* A listener registered by record runs eventHandler on one event.
Handle(events, rows) ==
  /\ alive /\ started
  /\ Len(accepted) < rows
  /\ \E e \in events :
       LET st == eventHandler([time |-> time, info |-> info], e, now)
       IN /\ time' = st.time
          /\ info' = st.info
          /\ accepted' = accepted \o SubSeq(st.info, Len(info) + 1, Len(st.info))
  /\ lastOp' = Op("event", <<now>>)
  /\ UNCHANGED <<started, alive, samplingFreq, postIntervalMs, uid,
                 now, timers, pending, sent>>

mouseHandler == Handle(MouseEvents, MaxRows)
keyHandler == Handle(KeyEvents, MaxRows)
winHandler == Handle(WinEvents, MaxRows)

\* touchHandler: one eventHandler call per changed contact point.
touchHandler ==
  /\ alive /\ started
  /\ \E touches \in TouchLists, type \in TouchEvts :
       /\ Len(accepted) + Len(touches) <= MaxRows
       /\ \E reads \in Readings(now, Len(touches)) :
            LET st == TouchLoop([time |-> time, info |-> info], touches, type,
                                reads, 1)
                end == IF Len(touches) = 0 THEN now ELSE reads[Len(touches)]
            IN /\ end <= LastInstant + MaxTouches
               /\ now' = end
               /\ time' = st.time
               /\ info' = st.info
               /\ accepted' = accepted \o
                                SubSeq(st.info, Len(info) + 1, Len(st.info))
               /\ lastOp' = Op("touch", reads)
  /\ UNCHANGED <<started, alive, samplingFreq, postIntervalMs, uid,
                 timers, pending, sent>>

----------------------------------------------------------------------------
(* Sending.                                                                *)

\* The postdata built by initNewData, without the url and the screen,
\* window and document sizes, which nothing in TrackUI reads back.
InitRequest(async, buf) ==
  [action |-> "init", async |-> async, info |-> buf,
   task |-> "evtrack", layout |-> "liquid"]

\* The postdata built by appendData.
AppendRequest(async, u, buf) ==
  [action |-> "append", async |-> async, uid |-> u, info |-> buf]

\* TrackLib.XHR.sendAjaxRequest: the callback runs that it makes before it
\* returns.  An asynchronous request returns at once; a synchronous one
\* blocks until the response is there, and runs the callback with its text,
\* or gives up without running it.
sendAjaxRequest(async) ==
  IF async THEN {<<>>} ELSE {<<>>} \cup {<<r>> : r \in Responses}

\* The recurring timer armed by setUserId.
Interval == [kind |-> "interval", due |-> now + postIntervalMs]

\* setUserId that tests the id for NaN only: 0 arms the timer too.
setUserIdNotNaN(st, response) ==
  LET u == parseInt(response)
  IN [uid |-> u,
      timers |-> IF ~u.nan THEN Append(st.timers, Interval) ELSE st.timers]

\* setUserId(response) on the pair (TrackUI.uid, armed timers).
setUserId(st, response) ==
  LET u == parseInt(response)
  IN [uid |-> u,
      timers |-> IF Truthy(u) THEN Append(st.timers, Interval) ELSE st.timers]

\* The callback runs in order, starting from st.
RECURSIVE Callbacks(_, _, _)
Callbacks(st, rs, i) ==
  IF i > Len(rs) THEN st ELSE Callbacks(setUserId(st, rs[i]), rs, i + 1)

\* initNewData that takes one row at a time: the first row is sent and
\* removed, the rest stays in the buffer.
initNewDataDrainOne(async, tm) ==
  /\ sent' = Append(sent, InitRequest(async, IF info = <<>> THEN <<>>
                                                             ELSE <<Head(info)>>))
  /\ info' = IF info = <<>> THEN <<>> ELSE Tail(info)
  /\ \E rs \in sendAjaxRequest(async) :
       LET st == Callbacks([uid |-> uid, timers |-> tm], rs, 1)
       IN /\ uid' = st.uid
          /\ timers' = st.timers
  /\ pending' = IF async THEN pending + 1 ELSE pending

\* initNewData(async): send the init payload with the whole buffer, with
\* setUserId as callback, then empty the buffer.
initNewData(async, tm) ==
  /\ sent' = Append(sent, InitRequest(async, info))
  /\ info' = <<>>
  /\ \E rs \in sendAjaxRequest(async) :
       LET st == Callbacks([uid |-> uid, timers |-> tm], rs, 1)
       IN /\ uid' = st.uid
          /\ timers' = st.timers
  /\ pending' = IF async THEN pending + 1 ELSE pending

\* appendData without its clean-up: the buffer is sent and kept.
appendDataKeep(async, tm) ==
  /\ sent' = Append(sent, AppendRequest(async, uid, info))
  /\ timers' = tm
  /\ UNCHANGED <<uid, pending, info>>

\* appendData(async): send the append payload with the whole buffer and no
\* callback, then empty the buffer.
appendData(async, tm) ==
  /\ sent' = Append(sent, AppendRequest(async, uid, info))
  /\ info' = <<>>
  /\ timers' = tm
  /\ UNCHANGED <<uid, pending>>

Remove(s, i) == SubSeq(s, 1, i - 1) \o SubSeq(s, i + 1, Len(s))

\* Timers run as soon as their delay has passed, in any order.
ReadyAnyOrder(i) == now >= timers[i].due

\* The browser runs the callback of timer i: its delay has passed, and no
\* other timer is due earlier, or as early and armed before it (timers is
\* in arming order).
Ready(i) ==
  /\ now >= timers[i].due
  /\ \A j \in DOMAIN timers :
       ~(timers[j].due < timers[i].due \/ (timers[j].due = timers[i].due /\ j < i))

\* The setTimeout callback run without waiting for its delay.
DeferredTimerEarly ==
  /\ alive /\ Len(sent) < MaxSends
  /\ \E i \in DOMAIN timers :
       /\ timers[i].kind = "timeout"
       /\ initNewData(TRUE, Remove(timers, i))
  /\ lastOp' = Op("timeout", <<>>)
  /\ UNCHANGED <<started, alive, samplingFreq, postIntervalMs, time,
                 now, accepted>>

\* The setTimeout callback of record: initNewData(true), once.
DeferredTimer ==
  /\ alive /\ Len(sent) < MaxSends
  /\ \E i \in DOMAIN timers :
       /\ timers[i].kind = "timeout"
       /\ Ready(i)
       /\ initNewData(TRUE, Remove(timers, i))
  /\ lastOp' = Op("timeout", <<>>)
  /\ UNCHANGED <<started, alive, samplingFreq, postIntervalMs, time,
                 now, accepted>>

\* A setInterval callback of setUserId: appendData(true); the browser arms
\* the timer again, postInterval*1000 from now.
IntervalTimer ==
  /\ alive /\ Len(sent) < MaxSends
  /\ \E i \in DOMAIN timers :
       /\ timers[i].kind = "interval"
       /\ Ready(i)
       /\ appendData(TRUE, Append(Remove(timers, i), Interval))
  /\ lastOp' = Op("interval", <<>>)
  /\ UNCHANGED <<started, alive, samplingFreq, postIntervalMs, time,
                 now, accepted>>

\* The response of an asynchronous init request arrives: setUserId runs.
InitResponse ==
  /\ alive /\ pending > 0
  /\ \E r \in Responses :
       LET st == setUserId([uid |-> uid, timers |-> timers], r)
       IN /\ uid' = st.uid
          /\ timers' = st.timers
          /\ lastOp' = [Op("response", <<>>) EXCEPT !.text = r]
  /\ pending' = pending - 1
  /\ UNCHANGED <<started, alive, samplingFreq, postIntervalMs, time,
                 info, now, sent, accepted>>

\* flush with the test of uid inverted.
flushInverted ==
  /\ alive /\ started /\ Len(sent) < MaxSends
  /\ IF Truthy(uid) THEN initNewData(FALSE, timers)
                    ELSE appendData(FALSE, timers)
  /\ alive' \in {TRUE, FALSE}
  /\ lastOp' = Op("flush", <<>>)
  /\ UNCHANGED <<started, samplingFreq, postIntervalMs, time, now, accepted>>

\* flush: the handler of the event chosen at line 72.  After unload the page
\* is gone; beforeunload runs before a navigation that may still be
\* cancelled, after which the page lives on.
flush ==
  /\ alive /\ started /\ Len(sent) < MaxSends
  /\ IF Truthy(uid) THEN appendData(FALSE, timers)
                    ELSE initNewData(FALSE, timers)
  /\ alive' \in {TRUE, FALSE}
  /\ lastOp' = Op("flush", <<>>)
  /\ UNCHANGED <<started, samplingFreq, postIntervalMs, time, now,
                 accepted>>

\* The mouse listener of a page on which the pointer is the only source of
\* events.
pointerHandler == Handle(MouseEvents, MaxAccepted)

Next ==
  \/ record
  \/ Advance
  \/ pointerHandler
  \/ DeferredTimer
  \/ IntervalTimer
  \/ InitResponse
  \/ flush

Spec == Init /\ [][Next]_vars

\* The first instants of a visit: no timer is due yet and the page stays.
recordDefault == RecordWith(GateFreqs, GateIntervals)
AdvanceGate == AdvanceBy(GateSteps, LastInstant)

NextSampling ==
  \/ recordDefault
  \/ AdvanceGate
  \/ mouseHandler
  \/ keyHandler
  \/ winHandler
  \/ touchHandler

SpecSampling == Init /\ [][NextSampling]_vars

----------------------------------------------------------------------------
(* Properties.                                                             *)

Last(s) == s[Len(s)]

\* The rows of all requests sent so far, in send order.
RECURSIVE RowsOf(_, _)
RowsOf(reqs, i) ==
  IF i > Len(reqs) THEN <<>> ELSE reqs[i].info \o RowsOf(reqs, i + 1)

SentRows == RowsOf(sent, 1)

Range(s) == {s[i] : i \in DOMAIN s}
BagOfSeq(s) == [x \in Range(s) |-> Cardinality({i \in DOMAIN s : s[i] = x})]

\* C1: every run of flush issues exactly one request; it is synchronous, it
\* carries the whole buffer as it was when flush started, and it is an init
\* request when uid was falsy and an append request when uid was truthy.
C1_FlushSendsOnce ==
  [][lastOp'.op = "flush" =>
       /\ Len(sent') = Len(sent) + 1
       /\ SubSeq(sent', 1, Len(sent)) = sent
       /\ Last(sent').async = FALSE
       /\ Last(sent').info = info
       /\ Last(sent').action = (IF Truthy(uid) THEN "append" ELSE "init")]_vars

\* C1 witness: flush ran with rows in the buffer while the response of the
\* deferred init was still outstanding, and it sent them in an init request.
C1_Witness ==
  /\ lastOp.op = "flush"
  /\ pending > 0
  /\ Last(sent).action = "init"
  /\ Len(Last(sent).info) = 2

\* C2: every append request that was sent carries a uid that is a usable
\* (non-zero, non-NaN) session id.
C2_AppendCarriesSessionId ==
  \A i \in DOMAIN sent : sent[i].action = "append" => Truthy(sent[i].uid)

\* C3: once uid is a non-zero id, no step changes it.
C3_EstablishedIdNeverChanges ==
  [][Truthy(uid) => uid' = uid]_vars

\* C4: no row is lost or duplicated: the rows sent so far together with the
\* rows still buffered are exactly the rows recorded, each as often as it was
\* recorded, and when flush has run the buffer is empty, so that all of them
\* have been sent.
C4_NoRowLostOrSentTwice ==
  /\ BagOfSeq(SentRows \o info) = BagOfSeq(accepted)
  /\ lastOp.op = "flush" => info = <<>> /\ Len(SentRows) = Len(accepted)

\* C4 witness: flush has run after two rows were recorded and an earlier
\* request had already carried one of them.
C4_Witness ==
  /\ lastOp.op = "flush"
  /\ Len(accepted) = 2
  /\ \E i \in DOMAIN sent : i < Len(sent) /\ Len(sent[i].info) = 1
  /\ Len(Last(sent).info) = 1

\* C5: the rows of the requests, in send order and within each request in
\* info order, followed by the rows still buffered, are the recorded rows in
\* the order they were recorded.
C5_CaptureOrderPreserved ==
  SentRows \o info = accepted

\* C5 witness: one request carried two different rows, in the order they
\* were recorded.
C5_Witness ==
  \E i \in DOMAIN sent :
    /\ Len(sent[i].info) = 2
    /\ sent[i].info[1][2] < sent[i].info[2][2]
    /\ samplingFreq = 0

\* C6: after an init response that leaves uid falsy, a timer that sends an
\* init request when it fires is armed, so that a later tick retries.
C6_InitRetriedByTimer ==
  (lastOp.op = "response" /\ ~Truthy(uid)) =>
     \E i \in DOMAIN timers : timers[i].kind = "timeout"

\* C7: once uid is a non-zero id N, uid stays N and every request sent is an
\* append request carrying N.
C7_EstablishedSendsAppend ==
  [][Truthy(uid) =>
       /\ uid' = uid
       /\ Len(sent') > Len(sent) =>
            Last(sent').action = "append" /\ Last(sent').uid = uid]_vars

C9_FirstEventRecorded ==
  lastOp.op = "event" => accepted # <<>>

\* C10: a touch event with k changed contact points that arrives when the
\* sampling gate is open appends exactly k rows.
C10_TouchRecordsEveryContact ==
  [][(lastOp'.op = "touch" /\ now - time >= samplingFreq) =>
       Len(info') = Len(info) + Len(lastOp'.reads)]_vars

\* C11: once flush has issued its (synchronous) request, no step sends
\* another request: not the deferred timer, not a recurring timer, not a
\* second run of flush.
C11_NoSendAfterFlush ==
  [][(\E i \in DOMAIN sent : ~sent[i].async) => sent' = sent]_vars

\* C12 as stated: rows leave the buffer only when the send that carried
\* them has succeeded, so no step empties a non-empty buffer and leaves the
\* request it made still waiting for its response.
C12_ClearedOnlyOnSuccess ==
  [][(info # <<>> /\ info' = <<>>) => pending' <= pending]_vars

\* C12 amended: the buffer is emptied all at once by every step that sends
\* a request, which carries the whole buffer, whether or not the request
\* succeeds later; any other step leaves the buffer alone or appends to it.
C12_ClearedOncePerSend ==
  [][/\ Len(sent') > Len(sent) =>
          /\ Len(sent') = Len(sent) + 1
          /\ Last(sent').info = info
          /\ info' = <<>>
     /\ sent' = sent =>
          /\ Len(info') >= Len(info)
          /\ SubSeq(info', 1, Len(info)) = info]_vars

\* C12 witness: the deferred init carried two rows and is still waiting for
\* its response, and the buffer is already empty.
C12_Witness ==
  /\ lastOp.op = "timeout"
  /\ pending > 0
  /\ Len(Last(sent).info) = 2
  /\ info = <<>>

\* C13: an init request is sent only when no earlier init request is still
\* waiting for its response and uid is not yet a non-zero id.
C13_OneInitAtATime ==
  [][(Len(sent') > Len(sent) /\ Last(sent').action = "init") =>
       pending = 0 /\ ~Truthy(uid)]_vars

\* C14: the shape of every request is chosen by the session state at the
\* time of the send -- init while uid is not a non-zero id, append once it
\* is -- and an append request is never sent while an init request is
\* still waiting for its response.
C14_ShapeFollowsState ==
  [][Len(sent') > Len(sent) =>
       /\ Last(sent').action = (IF Truthy(uid) THEN "append" ELSE "init")
       /\ Last(sent').action = "append" => pending = 0]_vars

\* The delay of the deferred first send has not passed yet.
BeforeFirstSend ==
  \E i \in DOMAIN timers : timers[i].kind = "timeout" /\ now < timers[i].due

\* C15 as stated: when the page is torn down before postInterval has
\* elapsed since record, no init request was sent during the visit.
C15_ShortVisitSendsNoInit ==
  (~alive /\ BeforeFirstSend) => \A j \in DOMAIN sent : sent[j].action # "init"

\* C15 amended: before postInterval has elapsed since record no timer sends
\* anything; every request sent that early is a synchronous request of
\* flush, and the first of them is an init request.
C15_OnlyFlushSendsEarly ==
  [][(BeforeFirstSend /\ Len(sent') > Len(sent)) =>
       /\ lastOp'.op = "flush"
       /\ ~Last(sent').async
       /\ sent = <<>> => Last(sent').action = "init"]_vars

\* C15 witness: the page was unloaded before the deferred send was due, and
\* the one request of the visit is the synchronous init of flush, carrying
\* the row recorded so far.
C15_Witness ==
  /\ ~alive
  /\ BeforeFirstSend
  /\ lastOp.op = "flush"
  /\ Len(sent) = 1
  /\ sent[1].action = "init" /\ ~sent[1].async
  /\ Len(sent[1].info) = 1

\* C16: a mouse, key, window or touch handler changes only info and time:
\* it sends nothing, leaves uid, the armed timers, the requests in flight
\* and the settings alone; and every request is sent by the deferred timer,
\* a recurring timer or flush.
C16_HandlersOnlyRecord ==
  [][/\ lastOp'.op \in {"event", "touch"} =>
          UNCHANGED <<sent, uid, timers, pending, samplingFreq,
                      postIntervalMs, started, alive>>
     /\ sent' # sent => lastOp'.op \in {"timeout", "interval", "flush"}]_vars

\* C16 witness: a touch event with two contact points has put two rows into
\* the buffer while the deferred timer was armed, and nothing was sent.
C16_Witness ==
  /\ lastOp.op = "touch"
  /\ Len(lastOp.reads) = 2
  /\ Len(info) = 2
  /\ \E i \in DOMAIN timers : timers[i].kind = "timeout"
  /\ sent = <<>>

Intervals(tm) == {i \in DOMAIN tm : tm[i].kind = "interval"}
Timeouts(tm) == {i \in DOMAIN tm : tm[i].kind = "timeout"}

\* C17: the deferred timer armed by record fires at most once and not
\* before its delay has passed, and what it sends is one asynchronous init
\* request; no recurring timer fires while the deferred timer is still
\* armed; and a recurring timer is armed only by a step that has processed
\* an init response with a non-zero id.
C17_TimerDiscipline ==
  [][/\ lastOp'.op = "timeout" =>
          /\ \E i \in Timeouts(timers) : now >= timers[i].due
          /\ Timeouts(timers') = {}
          /\ \A j \in DOMAIN sent : ~(sent[j].action = "init" /\ sent[j].async)
          /\ Len(sent') = Len(sent) + 1
          /\ Last(sent').action = "init" /\ Last(sent').async
     /\ lastOp'.op = "interval" =>
          /\ Timeouts(timers) = {}
          /\ Len(sent') = Len(sent) + 1
          /\ Last(sent').action = "append" /\ Last(sent').async
     /\ Cardinality(Intervals(timers')) > Cardinality(Intervals(timers)) =>
          /\ lastOp'.op \in {"response", "flush"}
          /\ Truthy(uid')
          /\ \E j \in DOMAIN sent' : sent'[j].action = "init"]_vars

\* C17 witness: the deferred timer sent the init, its response armed the
\* recurring timer, and the recurring timer has sent an append.
C17_Witness ==
  /\ lastOp.op = "interval"
  /\ Len(sent) = 2
  /\ sent[1].action = "init" /\ sent[1].async
  /\ sent[2].action = "append" /\ sent[2].async
  /\ Cardinality(Intervals(timers)) = 1

\* Response texts that carry no usable id: empty (a failed request), zero,
\* not a number.
NoIdTexts == {<<>>, <<"0">>, <<"x">>}

\* C18: when the callback of an init request runs on an empty, zero or
\* non-numeric response, uid is not a non-zero id afterwards and no timer
\* has been armed or removed; and when flush runs next, it sends an init
\* request.
C18_NoIdResponseIsAValue ==
  [][/\ (lastOp'.op = "response" /\ lastOp'.text \in NoIdTexts) =>
          ~Truthy(uid') /\ timers' = timers
     /\ (lastOp.op = "response" /\ lastOp.text \in NoIdTexts
                                /\ lastOp'.op = "flush") =>
          /\ Len(sent') = Len(sent) + 1
          /\ Last(sent').action = "init"]_vars

\* C18 witness: the deferred init was answered without a usable id, which
\* left no timer armed, and the flush that followed sent a second init.
C18_Witness ==
  /\ lastOp.op = "flush"
  /\ Len(sent) = 2
  /\ sent[1].action = "init" /\ sent[1].async
  /\ sent[2].action = "init" /\ ~sent[2].async
  /\ pending = 0
  /\ ~alive
  /\ timers = <<>>

\* C19: at most one recurring timer is armed in every state.
C19_OneRecurringTimer ==
  Cardinality(Intervals(timers)) <= 1

====
